---- MODULE Spec2Model ----
(***************************************************************************)
(* Common::FifoQueue (Source/Core/Common/FifoQueue.h): a lock-free single  *)
(* producer / single consumer queue over a chain of malloc'ed blocks.      *)
(*                                                                         *)
(* Every statement of Push and dopop that touches memory the other thread  *)
(* can see is one action, so TLC explores every interleaving of the two    *)
(* threads.  destroy() and Clear() are not thread safe and run only while  *)
(* both threads are idle.  A block comes from malloc: its next field and   *)
(* its element slots hold no value until the code stores one, and a load   *)
(* of such a field yields any pointer.                                     *)
(***************************************************************************)
EXTENDS Integers, Sequences, FiniteSets, TLC

\* ------------------------------------------------------------------ bounds
\* Pushes started over the whole run (all lives of the queue together).
MaxPush == 4
\* Calls of Clear() over the whole run.
MaxClear == 1
\* sizeof(T) of the element types instantiated: get_size gives 32, 4 and 1.
SizeofTs == {64, 512, 2048}

\* --------------------------------------------------------------- pointers
\* A block pointer is the block's position in heap (1, 2, ...), or one of:
NULLP == 0       \* the null pointer
WILD == -1       \* a pointer to no block of the queue
UNSET == -2      \* content of a malloc'ed next field nothing was stored to
\* what a read of a slot that holds no constructed element yields
Garbage == 0

VARIABLES
    sizeofT,      \* sizeof(T), fixed at instantiation
    heap,         \* every block malloc'ed so far, in allocation order
    head, tail, tail_cache, head_block, tail_block,
    ppc, ctail, cind, nb, pval,               \* producer: position and locals of Push
    cpc, chead, hind, ohead, docreate, out,   \* consumer: position and locals of dopop, *dop
    dpc, reinit,                              \* destroy(): position, and whether init() follows
    first_block,                              \* history: the block the last init() allocated
    nextVal, nClears,                         \* pushes started, Clears started
    pushed, consumed,                         \* history: values of completed Pushes / of successful Pops
    availAtStart,                             \* history: head < tail held when the running Pop began
    ret, ref,                                 \* last call's result / the result of a plain FIFO of values
    constructed, destroyed,                   \* history: slots constructed / destroyed in place
    badFree, readUnset, allocFailed, nullWrite \* history: invalid free, load of an unset next, malloc failure, store through null

qvars == <<sizeofT, heap, head, tail, tail_cache, head_block, tail_block>>
pvars == <<ppc, ctail, cind, nb, pval>>
cvars == <<cpc, chead, hind, ohead, docreate, out>>
lvars == <<dpc, reinit, nClears, first_block>>
hvars == <<nextVal, pushed, consumed, availAtStart, ret, ref, constructed, destroyed,
           badFree, readUnset, allocFailed, nullWrite>>
vars == <<qvars, pvars, cvars, lvars, hvars>>

\* ------------------------------------------------------------ block sizing
get_big(s) == IF s < 1024 THEN 4 ELSE 1
get_med(s) == IF s <= 128 THEN 32 ELSE get_big(s)
size(s) == IF s <= 32 THEN 128 ELSE get_med(s)

nelems == size(sizeofT)
\* nmod without the - 1
nmod_NoMinusOne == nelems

nmod == nelems - 1

\* x & y on size_t
RECURSIVE BitAnd(_, _)
BitAnd(x, y) ==
    IF x = 0 \/ y = 0 THEN 0
    ELSE (x % 2) * (y % 2) + 2 * BitAnd(x \div 2, y \div 2)

\* ------------------------------------------------------------------- heap
EmptySlot == [st |-> "uninit", val |-> Garbage, at |-> 0]

\* a block as malloc returns it: nothing initialised
queue_block ==
    [st |-> "alloc", frees |-> 0, next |-> UNSET, nextAt |-> 0,
     elems |-> [i \in 0..nmod |-> EmptySlot]]

IsBlock(h, p) == p \in 1..Len(h)
IsLive(h, p) == IsBlock(h, p) /\ h[p].st = "alloc"
Live(h) == {p \in 1..Len(h) : h[p].st = "alloc"}
Freed(h) == {p \in 1..Len(h) : h[p].st = "freed"}

\* malloc(sizeof(queue_block)): the heap with one more block; the new block is Len
get_block(h) == Append(h, queue_block)

\* return_block that frees nothing
return_block_Noop(h, qb) == h

\* free(qb): free(NULL) does nothing
return_block(h, qb) ==
    IF IsBlock(h, qb)
    THEN [h EXCEPT ![qb].st = "freed", ![qb].frees = @ + 1]
    ELSE h

\* free of a pointer that is no live block
InvalidFree(h, qb) == qb # NULLP /\ ~IsLive(h, qb)

\* what an uninitialised pointer field can hold
GarbagePtrs(h) == {NULLP, WILD} \cup Freed(h)

\* The values a load of p->next can return.  sync: every store the producer
\* made before releasing tail value t is visible to a reader that acquired a
\* tail value >= t; all stores are visible when sync is 0 (no concurrency).
LoadNext(h, p, sync) ==
    IF ~IsLive(h, p) THEN {NULLP, WILD}
    ELSE IF h[p].next = UNSET THEN GarbagePtrs(h)
    ELSE IF sync = 0 \/ h[p].nextAt < sync THEN {h[p].next}
    ELSE {h[p].next} \cup GarbagePtrs(h)

NextIsUnset(h, p, sync) ==
    \/ ~IsLive(h, p)
    \/ h[p].next = UNSET
    \/ (sync # 0 /\ h[p].nextAt >= sync)

\* The values a read of p->elems[i] can return.
LoadElem(h, p, i, sync) ==
    IF ~IsLive(h, p) THEN {Garbage}
    ELSE IF h[p].elems[i].st # "live" THEN {Garbage}
    ELSE IF sync = 0 \/ h[p].elems[i].at < sync THEN {h[p].elems[i].val}
    ELSE {h[p].elems[i].val, Garbage}

\* ------------------------------------------------------------ construction
\* init() that leaves tail_cache at zero
init_CacheZero(h) ==
    [heap |-> get_block(h), head_block |-> Len(h) + 1, tail_block |-> Len(h) + 1,
     head |-> 1, tail_cache |-> 0, tail |-> 1]

\* init(): the fields after init() on heap h
init(h) ==
    [heap |-> get_block(h), head_block |-> Len(h) + 1, tail_block |-> Len(h) + 1,
     head |-> 1, tail_cache |-> 1, tail |-> 1]

\* a call's result: <<operation, boolean result, value>>
NoRet == <<"none", TRUE, 0>>

Init ==
    /\ sizeofT \in SizeofTs
    /\ heap = init(<<>>).heap
    /\ head_block = init(<<>>).head_block
    /\ tail_block = init(<<>>).tail_block
    /\ head = init(<<>>).head
    /\ tail_cache = init(<<>>).tail_cache
    /\ tail = init(<<>>).tail
    /\ ppc = "idle" /\ ctail = 0 /\ cind = 0 /\ nb = NULLP /\ pval = 0
    /\ cpc = "idle" /\ chead = 0 /\ hind = 0 /\ ohead = NULLP /\ docreate = FALSE /\ out = 0
    /\ dpc = "none" /\ reinit = FALSE /\ nClears = 0
    /\ first_block = init(<<>>).head_block
    /\ nextVal = 1 /\ pushed = <<>> /\ consumed = <<>>
    /\ availAtStart = FALSE
    /\ ret = NoRet /\ ref = NoRet
    /\ constructed = 0 /\ destroyed = 0
    /\ badFree = FALSE /\ readUnset = FALSE /\ allocFailed = FALSE /\ nullWrite = FALSE

\* the process has not died on a fault
Running == ppc # "crashed" /\ dpc # "crashed"
\* no Push, Pop, Clear or destructor is in progress
Quiescent == ppc = "idle" /\ cpc = "idle" /\ dpc = "none"

\* ------------------------------------------------------------------- Push
\* PushLoad that takes no new block while tail is at its initial position
PushLoad_SkipInitial ==
    /\ Running /\ dpc = "none" /\ ppc = "idle"
    /\ nextVal <= MaxPush
    /\ pval' = nextVal
    /\ nextVal' = nextVal + 1
    /\ ctail' = tail
    /\ cind' = BitAnd(tail, nmod)
    /\ ppc' = IF BitAnd(tail, nmod) = 0 /\ tail # 1 THEN "get_block" ELSE "construct"
    /\ ret' = NoRet /\ ref' = NoRet
    /\ UNCHANGED <<qvars, nb, cvars, lvars, pushed, consumed, availAtStart,
                   constructed, destroyed, badFree, readUnset, allocFailed, nullWrite>>

\* PushLoad that publishes the incremented tail before the element exists
PushLoad_PublishFirst ==
    /\ Running /\ dpc = "none" /\ ppc = "idle"
    /\ nextVal <= MaxPush
    /\ pval' = nextVal
    /\ nextVal' = nextVal + 1
    /\ ctail' = tail
    /\ tail' = tail + 1
    /\ cind' = BitAnd(tail, nmod)
    /\ ppc' = IF BitAnd(tail, nmod) = 0 THEN "get_block" ELSE "construct"
    /\ ret' = NoRet /\ ref' = NoRet
    /\ UNCHANGED <<sizeofT, heap, head, tail_cache, head_block, tail_block, nb, cvars, lvars, pushed, consumed, availAtStart,
                   constructed, destroyed, badFree, readUnset, allocFailed, nullWrite>>

\* PushLoad that takes the new block at the last index of a block
PushLoad_AllocAtLast ==
    /\ Running /\ dpc = "none" /\ ppc = "idle"
    /\ nextVal <= MaxPush
    /\ pval' = nextVal
    /\ nextVal' = nextVal + 1
    /\ ctail' = tail
    /\ cind' = BitAnd(tail, nmod)
    /\ ppc' = IF BitAnd(tail, nmod) = nmod THEN "get_block" ELSE "construct"
    /\ ret' = NoRet /\ ref' = NoRet
    /\ UNCHANGED <<qvars, nb, cvars, lvars, pushed, consumed, availAtStart,
                   constructed, destroyed, badFree, readUnset, allocFailed, nullWrite>>

\* auto ctail = tail.load(relaxed); auto cind = ctail & nmod; if (cind == 0)
PushLoad ==
    /\ Running /\ dpc = "none" /\ ppc = "idle"
    /\ nextVal <= MaxPush
    /\ pval' = nextVal
    /\ nextVal' = nextVal + 1
    /\ ctail' = tail
    /\ cind' = BitAnd(tail, nmod)
    /\ ppc' = IF BitAnd(tail, nmod) = 0 THEN "get_block" ELSE "construct"
    /\ ret' = NoRet /\ ref' = NoRet
    /\ UNCHANGED <<qvars, nb, cvars, lvars, pushed, consumed, availAtStart,
                   constructed, destroyed, badFree, readUnset, allocFailed, nullWrite>>

\* auto nb = get_block();  (malloc succeeds)
PushGetBlock ==
    /\ Running /\ ppc = "get_block"
    /\ heap' = get_block(heap)
    /\ nb' = Len(heap) + 1
    /\ ppc' = "link"
    /\ UNCHANGED <<sizeofT, head, tail, tail_cache, head_block, tail_block,
                   ctail, cind, pval, cvars, lvars, hvars>>

\* auto nb = get_block();  (malloc returns a null pointer; nothing checks it)
PushGetBlockFail ==
    /\ Running /\ ppc = "get_block"
    /\ nb' = NULLP
    /\ allocFailed' = TRUE
    /\ ppc' = "link"
    /\ UNCHANGED <<qvars, ctail, cind, pval, cvars, lvars, nextVal, pushed, consumed,
                   availAtStart, ret, ref, constructed, destroyed, badFree, readUnset,
                   nullWrite>>

\* PushLink that stores the old block in its own next field
PushLink_Self ==
    /\ Running /\ ppc = "link"
    /\ heap' = IF IsBlock(heap, tail_block)
               THEN [heap EXCEPT ![tail_block].next = tail_block, ![tail_block].nextAt = ctail]
               ELSE heap
    /\ ppc' = "advance"
    /\ UNCHANGED <<sizeofT, head, tail, tail_cache, head_block, tail_block,
                   ctail, cind, nb, pval, cvars, lvars, hvars>>

\* tail_block->next.store(nb, relaxed);
PushLink ==
    /\ Running /\ ppc = "link"
    /\ heap' = IF IsBlock(heap, tail_block)
               THEN [heap EXCEPT ![tail_block].next = nb, ![tail_block].nextAt = ctail]
               ELSE heap
    /\ ppc' = "advance"
    /\ UNCHANGED <<sizeofT, head, tail, tail_cache, head_block, tail_block,
                   ctail, cind, nb, pval, cvars, lvars, hvars>>

\* PushAdvance that leaves tail_block on the old block
PushAdvance_Skip ==
    /\ Running /\ ppc = "advance"
    /\ tail_block' = tail_block
    /\ ppc' = "construct"
    /\ UNCHANGED <<sizeofT, heap, head, tail, tail_cache, head_block,
                   ctail, cind, nb, pval, cvars, lvars, hvars>>

\* tail_block = nb;
PushAdvance ==
    /\ Running /\ ppc = "advance"
    /\ tail_block' = nb
    /\ ppc' = "construct"
    /\ UNCHANGED <<sizeofT, heap, head, tail, tail_cache, head_block,
                   ctail, cind, nb, pval, cvars, lvars, hvars>>

\* new (&tail_block->elems[cind]) T(std::forward<Arg>(t)...);
PushConstruct ==
    /\ Running /\ ppc = "construct"
    /\ IF IsBlock(heap, tail_block)
       THEN /\ heap' = [heap EXCEPT ![tail_block].elems[cind] =
                            [st |-> "live", val |-> pval, at |-> ctail]]
            /\ constructed' = constructed + 1
            /\ ppc' = "store"
            /\ UNCHANGED nullWrite
       ELSE /\ nullWrite' = TRUE
            /\ ppc' = "crashed"
            /\ UNCHANGED <<heap, constructed>>
    /\ UNCHANGED <<sizeofT, head, tail, tail_cache, head_block, tail_block,
                   ctail, cind, nb, pval, cvars, lvars, nextVal, pushed, consumed,
                   availAtStart, ret, ref, destroyed, badFree, readUnset, allocFailed>>

\* tail.store(ctail + 1, release);
PushStore ==
    /\ Running /\ ppc = "store"
    /\ tail' = ctail + 1
    /\ pushed' = Append(pushed, pval)
    /\ ppc' = "idle"
    /\ ctail' = 0 /\ cind' = 0 /\ nb' = NULLP /\ pval' = 0    \* the locals go out of scope
    /\ UNCHANGED <<sizeofT, heap, head, tail_cache, head_block, tail_block,
                   cvars, lvars, nextVal, consumed,
                   availAtStart, ret, ref, constructed, destroyed, badFree, readUnset,
                   allocFailed, nullWrite>>

\* -------------------------------------------------------------------- Pop
\* dopop<dc>(dop): auto chead = head; if (chead == tail_cache)
dopop_begin(dc) ==
    /\ Running /\ cpc = "idle"
    /\ chead' = head
    /\ docreate' = dc
    /\ availAtStart' = (head < tail)
    /\ cpc' = IF head = tail_cache THEN "load" ELSE "inc"
    /\ ret' = NoRet /\ ref' = NoRet
    /\ UNCHANGED <<qvars, pvars, hind, ohead, out, lvars, nextVal, pushed, consumed,
                   constructed, destroyed, badFree, readUnset, allocFailed,
                   nullWrite>>

\* bool Pop()
Pop == dpc = "none" /\ dopop_begin(FALSE)

\* bool Pop(T& t)
PopOut == dpc = "none" /\ dopop_begin(TRUE)

\* which of the two Pop overloads runs dopop
PopName(dc) == IF dc THEN "PopOut" ELSE "Pop"

\* PopLoadTail with head++ hoisted above the emptiness test
PopLoadTail_IncFirst ==
    /\ Running /\ cpc = "load"
    /\ tail_cache' = tail
    /\ IF chead = tail
       THEN /\ cpc' = "idle"
            /\ head' = head + 1
            /\ ret' = <<PopName(docreate), FALSE, 0>>
            /\ ref' = <<PopName(docreate), Len(pushed) > Len(consumed), 0>>
            /\ dpc' = IF dpc = "drain" THEN "walk" ELSE dpc
            /\ chead' = 0 /\ docreate' = FALSE /\ availAtStart' = FALSE
       ELSE /\ cpc' = "inc"
            /\ UNCHANGED <<ret, ref, dpc, chead, docreate, availAtStart, head>>
    /\ UNCHANGED <<sizeofT, heap, tail, head_block, tail_block, pvars,
                   hind, ohead, out, reinit, nClears, first_block, nextVal, pushed,
                   consumed, constructed, destroyed, badFree, readUnset,
                   allocFailed, nullWrite>>

\* PopLoadTail that tests the cached tail without loading tail again
PopLoadTail_NoReload ==
    /\ Running /\ cpc = "load"
    /\ tail_cache' = tail_cache
    /\ IF chead = tail_cache
       THEN /\ cpc' = "idle"
            /\ ret' = <<PopName(docreate), FALSE, 0>>
            /\ ref' = <<PopName(docreate), Len(pushed) > Len(consumed), 0>>
            /\ dpc' = IF dpc = "drain" THEN "walk" ELSE dpc
            /\ chead' = 0 /\ docreate' = FALSE /\ availAtStart' = FALSE
       ELSE /\ cpc' = "inc"
            /\ UNCHANGED <<ret, ref, dpc, chead, docreate, availAtStart>>
    /\ UNCHANGED <<sizeofT, heap, head, tail, head_block, tail_block, pvars,
                   hind, ohead, out, reinit, nClears, first_block, nextVal, pushed,
                   consumed, constructed, destroyed, badFree, readUnset,
                   allocFailed, nullWrite>>

\* PopLoadTail that tests chead > tail instead of chead == tail
PopLoadTail_WrongTest ==
    /\ Running /\ cpc = "load"
    /\ tail_cache' = tail
    /\ IF chead > tail
       THEN /\ cpc' = "idle"
            /\ ret' = <<PopName(docreate), FALSE, 0>>
            /\ ref' = <<PopName(docreate), Len(pushed) > Len(consumed), 0>>
            /\ dpc' = IF dpc = "drain" THEN "walk" ELSE dpc
            /\ chead' = 0 /\ docreate' = FALSE /\ availAtStart' = FALSE
       ELSE /\ cpc' = "inc"
            /\ UNCHANGED <<ret, ref, dpc, chead, docreate, availAtStart>>
    /\ UNCHANGED <<sizeofT, heap, head, tail, head_block, tail_block, pvars,
                   hind, ohead, out, reinit, nClears, first_block, nextVal, pushed,
                   consumed, constructed, destroyed, badFree, readUnset,
                   allocFailed, nullWrite>>

\* tail_cache = tail.load(acquire); if (chead == tail_cache) return false;
PopLoadTail ==
    /\ Running /\ cpc = "load"
    /\ tail_cache' = tail
    /\ IF chead = tail
       THEN /\ cpc' = "idle"
            /\ ret' = <<PopName(docreate), FALSE, 0>>
            /\ ref' = <<PopName(docreate), Len(pushed) > Len(consumed), 0>>
            /\ dpc' = IF dpc = "drain" THEN "walk" ELSE dpc
            /\ chead' = 0 /\ docreate' = FALSE /\ availAtStart' = FALSE
       ELSE /\ cpc' = "inc"
            /\ UNCHANGED <<ret, ref, dpc, chead, docreate, availAtStart>>
    /\ UNCHANGED <<sizeofT, heap, head, tail, head_block, tail_block, pvars,
                   hind, ohead, out, reinit, nClears, first_block, nextVal, pushed,
                   consumed, constructed, destroyed, badFree, readUnset,
                   allocFailed, nullWrite>>

\* PopInc with the slot index taken from the incremented head
PopInc_NewHead ==
    /\ Running /\ cpc = "inc"
    /\ head' = head + 1
    /\ hind' = BitAnd(chead + 1, nmod)
    /\ cpc' = IF BitAnd(chead + 1, nmod) = 0 THEN "next" ELSE "read"
    /\ UNCHANGED <<sizeofT, heap, tail, tail_cache, head_block, tail_block, pvars,
                   chead, ohead, docreate, out, lvars, hvars>>

\* head++; auto hind = chead & nmod; if (hind == 0)
PopInc ==
    /\ Running /\ cpc = "inc"
    /\ head' = head + 1
    /\ hind' = BitAnd(chead, nmod)
    /\ cpc' = IF BitAnd(chead, nmod) = 0 THEN "next" ELSE "read"
    /\ UNCHANGED <<sizeofT, heap, tail, tail_cache, head_block, tail_block, pvars,
                   chead, ohead, docreate, out, lvars, hvars>>

\* PopNext that leaves head_block on the old block
PopNext_Stay ==
    /\ Running /\ cpc = "next"
    /\ ohead' = head_block
    /\ head_block' = head_block
    /\ readUnset' = (readUnset \/ NextIsUnset(heap, head_block, tail_cache))
    /\ cpc' = "free"
    /\ UNCHANGED <<sizeofT, heap, head, tail, tail_cache, tail_block, pvars,
                   chead, hind, docreate, out, lvars, nextVal, pushed, consumed,
                   availAtStart, ret, ref, constructed, destroyed, badFree, allocFailed,
                   nullWrite>>

\* auto ohead = head_block; head_block = head_block->next.load(relaxed);
PopNext ==
    /\ Running /\ cpc = "next"
    /\ ohead' = head_block
    /\ head_block' \in LoadNext(heap, head_block, tail_cache)
    /\ readUnset' = (readUnset \/ NextIsUnset(heap, head_block, tail_cache))
    /\ cpc' = "free"
    /\ UNCHANGED <<sizeofT, heap, head, tail, tail_cache, tail_block, pvars,
                   chead, hind, docreate, out, lvars, nextVal, pushed, consumed,
                   availAtStart, ret, ref, constructed, destroyed, badFree, allocFailed,
                   nullWrite>>

\* PopFree that forgets return_block
PopFree_Leak ==
    /\ Running /\ cpc = "free"
    /\ heap' = heap
    /\ badFree' = (badFree \/ InvalidFree(heap, ohead))
    /\ cpc' = "read"
    /\ UNCHANGED <<sizeofT, head, tail, tail_cache, head_block, tail_block, pvars,
                   chead, hind, ohead, docreate, out, lvars, nextVal, pushed, consumed,
                   availAtStart, ret, ref, constructed, destroyed, readUnset, allocFailed,
                   nullWrite>>

\* return_block(ohead);
PopFree ==
    /\ Running /\ cpc = "free"
    /\ heap' = return_block(heap, ohead)
    /\ badFree' = (badFree \/ InvalidFree(heap, ohead))
    /\ cpc' = "read"
    /\ UNCHANGED <<sizeofT, head, tail, tail_cache, head_block, tail_block, pvars,
                   chead, hind, ohead, docreate, out, lvars, nextVal, pushed, consumed,
                   availAtStart, ret, ref, constructed, destroyed, readUnset, allocFailed,
                   nullWrite>>

\* the result a queue of plain values gives for the Pop that is returning true
RefPop(dc) ==
    IF dc
    THEN <<"PopOut", Len(pushed) > Len(consumed),
           IF Len(pushed) > Len(consumed) THEN pushed[Len(consumed) + 1] ELSE Garbage>>
    ELSE <<"Pop", Len(pushed) > Len(consumed), 0>>

\* T &curv = head_block->elems[hind];
\* if (docreate) *dop = std::move(curv); else curv.~T();  return true;
PopRead ==
    /\ Running /\ cpc = "read"
    /\ \E v \in LoadElem(heap, head_block, hind, tail_cache) :
          /\ out' = IF docreate THEN v ELSE out
          /\ consumed' = Append(consumed, v)
          /\ ret' = IF docreate THEN <<"PopOut", TRUE, v>> ELSE <<"Pop", TRUE, 0>>
    /\ ref' = RefPop(docreate)
    /\ heap' = IF IsBlock(heap, head_block)
               THEN [heap EXCEPT ![head_block].elems[hind].st =
                                      IF docreate THEN "moved" ELSE "dead"]
               ELSE heap
    /\ destroyed' = IF docreate THEN destroyed ELSE destroyed + 1
    /\ cpc' = "idle"
    /\ chead' = 0 /\ hind' = 0 /\ ohead' = NULLP /\ docreate' = FALSE
    /\ availAtStart' = FALSE
    /\ UNCHANGED <<sizeofT, head, tail, tail_cache, head_block, tail_block, pvars,
                   lvars, nextVal, pushed,
                   constructed, badFree, readUnset, allocFailed, nullWrite>>

\* ------------------------------------------------- Size, Empty, Front
\* Size() computed from the consumer's cached tail
Size_Cached == tail_cache - head

\* size_t Size() const
Size == tail - head

\* bool Empty() const
Empty == (Size = 0)

\* T& Front() const: the slot the returned reference names
Front == <<head_block, BitAnd(head, nmod)>>

CallSize ==
    /\ Running /\ Quiescent
    /\ ret' = <<"Size", TRUE, Size>>
    /\ ref' = <<"Size", TRUE, Len(pushed) - Len(consumed)>>
    /\ UNCHANGED <<qvars, pvars, cvars, lvars, nextVal, pushed, consumed, availAtStart,
                   constructed, destroyed, badFree, readUnset, allocFailed, nullWrite>>

CallEmpty ==
    /\ Running /\ Quiescent
    /\ ret' = <<"Empty", Empty, 0>>
    /\ ref' = <<"Empty", Len(pushed) = Len(consumed), 0>>
    /\ UNCHANGED <<qvars, pvars, cvars, lvars, nextVal, pushed, consumed, availAtStart,
                   constructed, destroyed, badFree, readUnset, allocFailed, nullWrite>>

\* Front() on a queue the caller knows to be non-empty, and a read through it
CallFront ==
    /\ Running /\ Quiescent
    /\ head < tail
    /\ \E v \in LoadElem(heap, Front[1], Front[2], 0) : ret' = <<"Front", TRUE, v>>
    /\ ref' = <<"Front", TRUE, pushed[Len(consumed) + 1]>>
    /\ UNCHANGED <<qvars, pvars, cvars, lvars, nextVal, pushed, consumed, availAtStart,
                   constructed, destroyed, badFree, readUnset, allocFailed, nullWrite>>

\* ------------------------------------------- Clear, destructor, destroy
\* void Clear(): destroy(); init();
ClearBegin ==
    /\ Running /\ Quiescent
    /\ nClears < MaxClear
    /\ nClears' = nClears + 1
    /\ dpc' = "drain"
    /\ reinit' = TRUE
    /\ ret' = NoRet /\ ref' = NoRet
    /\ UNCHANGED <<qvars, pvars, cvars, first_block, nextVal, pushed, consumed, availAtStart,
                   constructed, destroyed, badFree, readUnset, allocFailed, nullWrite>>

\* ~FifoQueue(): destroy();
DestructBegin ==
    /\ Running /\ Quiescent
    /\ dpc' = "drain"
    /\ reinit' = FALSE
    /\ ret' = NoRet /\ ref' = NoRet
    /\ UNCHANGED <<qvars, pvars, cvars, nClears, first_block, nextVal, pushed, consumed, availAtStart,
                   constructed, destroyed, badFree, readUnset, allocFailed, nullWrite>>

\* destroy(): while (Pop());
DestroyDrain == dpc = "drain" /\ dopop_begin(FALSE)

\* destroy(): while (head_block) { dptr = head_block;
\*     head_block = head_block->next.load(relaxed); return_block(dptr); }
DestroyWalk ==
    /\ dpc = "walk" /\ head_block # NULLP
    /\ heap' = return_block(heap, head_block)
    /\ badFree' = (badFree \/ InvalidFree(heap, head_block))
    /\ readUnset' = (readUnset \/ NextIsUnset(heap, head_block, 0))
    /\ \/ /\ head_block' \in LoadNext(heap, head_block, 0)
          /\ dpc' = dpc
       \/ /\ ~IsLive(heap, head_block)      \* the load through a bad pointer faults
          /\ head_block' = head_block
          /\ dpc' = "crashed"
    /\ UNCHANGED <<sizeofT, head, tail, tail_cache, tail_block, pvars, cvars,
                   reinit, nClears, first_block, nextVal, pushed, consumed, availAtStart, ret, ref,
                   constructed, destroyed, allocFailed, nullWrite>>

\* the walk is over: the destructor returns, Clear goes on with init()
DestroyEnd ==
    /\ dpc = "walk" /\ head_block = NULLP
    /\ IF reinit
       THEN /\ heap' = init(heap).heap
            /\ head_block' = init(heap).head_block
            /\ first_block' = init(heap).head_block
            /\ tail_block' = init(heap).tail_block
            /\ head' = init(heap).head
            /\ tail_cache' = init(heap).tail_cache
            /\ tail' = init(heap).tail
            /\ pushed' = <<>>
            /\ consumed' = <<>>
            /\ dpc' = "none"
            /\ ret' = <<"Clear", TRUE, 0>>
            /\ ref' = <<"Clear", TRUE, 0>>
       ELSE /\ dpc' = "dead"
            /\ UNCHANGED <<heap, head_block, tail_block, head, tail_cache, tail,
                           pushed, consumed, ret, ref, first_block>>
    /\ UNCHANGED <<sizeofT, pvars, cvars, reinit, nClears, nextVal, availAtStart,
                   constructed, destroyed, badFree, readUnset, allocFailed,
                   nullWrite>>

\* ---------------------------------------------------------- specifications
Next ==
    \/ PushLoad \/ PushGetBlock \/ PushLink \/ PushAdvance \/ PushConstruct \/ PushStore
    \/ Pop \/ PopOut \/ PopLoadTail \/ PopInc \/ PopNext \/ PopFree \/ PopRead
    \/ CallSize \/ CallEmpty \/ CallFront
    \/ ClearBegin \/ DestructBegin \/ DestroyDrain \/ DestroyWalk \/ DestroyEnd

\* malloc never fails
Spec == Init /\ [][Next]_vars

\* malloc may fail in Push
NextOOM == Next \/ PushGetBlockFail

SpecOOM == Init /\ [][NextOOM]_vars

\* ------------------------------------------------------------------ claims
IsPrefix(a, b) == Len(a) <= Len(b) /\ \A i \in 1..Len(a) : a[i] = b[i]

\* C1: under every interleaving of the steps of Push and Pop, the values the
\* successful Pops removed, in order, are a prefix of the values pushed, and
\* Pop(out) leaves the removed value in out: nothing is delivered twice,
\* skipped or out of order.
C1_FifoOrder ==
    /\ IsPrefix(consumed, pushed)
    /\ (ret[1] = "PopOut" /\ ret[2]) => (out = consumed[Len(consumed)])

\* three values were delivered across block boundaries while a Push is running
C1_Witness ==
    /\ nelems = 1 /\ consumed = <<1, 2, 3>> /\ out = 3
    /\ ret = <<"PopOut", TRUE, 3>> /\ ppc = "construct"

\* the oldest value still in the queue
Oldest == pushed[Len(consumed) + 1]

\* C2: whenever the queue is non-empty and no call is in progress, Front()
\* names a slot that holds the oldest element still in the queue, for every
\* head position.
C2_FrontIsOldest ==
    (Quiescent /\ head < tail) =>
        /\ IsLive(heap, Front[1])
        /\ heap[Front[1]].elems[Front[2]].st = "live"
        /\ heap[Front[1]].elems[Front[2]].val = Oldest

\* C3: a Pop that finds head equal to the tail it loads returns false, and no
\* step of it changes out, head, head_block, the set of allocated blocks or
\* tail.
C3_EmptyPopNoEffect ==
    [][/\ (cpc = "load" /\ cpc' # "load" /\ chead = tail) =>
            /\ cpc' = "idle" /\ ret'[2] = FALSE
            /\ ret'[1] \in {"Pop", "PopOut"}
       /\ ((cpc = "load" /\ cpc' = "idle") \/ (cpc = "idle" /\ cpc' = "load")) =>
            /\ out' = out /\ head' = head /\ head_block' = head_block
            /\ Live(heap') = Live(heap) /\ tail' = tail]_vars

\* 1, 2, 3 were pushed and popped and a fourth Pop(out) returned false
C3_Witness ==
    /\ pushed = <<1, 2, 3>> /\ consumed = <<1, 2, 3>>
    /\ ret = <<"PopOut", FALSE, 0>> /\ out = 3

\* C4: a Pop that begins while head < tail never returns false, however stale
\* tail_cache is.
C4_NoSpuriousEmpty ==
    [][(cpc = "load" /\ cpc' = "idle") => ~availAtStart]_vars

\* a Pop whose tail_cache says "empty" is about to load tail, and an element
\* is there
C4_Witness ==
    cpc = "load" /\ availAtStart /\ tail_cache = head /\ head < tail /\ ppc = "idle"

\* C5: in every quiescent state Size() is the number of completed Pushes minus
\* the number of successful Pops since construction or the last Clear, and
\* Empty() holds exactly when that number is zero.
C5_SizeCounts ==
    Quiescent =>
        /\ Size = Len(pushed) - Len(consumed)
        /\ Empty <=> (Len(pushed) = Len(consumed))

\* three values are in a queue that was cleared before
C5_Witness ==
    Quiescent /\ nClears = 1 /\ Len(pushed) = 3 /\ consumed = <<>> /\ Size = 3

\* C6: for each block capacity, every result of Push, Pop(out), Pop(), Size()
\* and Empty() is the result a FIFO of plain values gives for the same calls,
\* so the results do not depend on the block capacity.
C6_BlockSizeIndependent ==
    (ret[1] # "Front") => (ret = ref)

\* the fourth value comes out of the second block of a 4-element-block queue
C6_Witness ==
    nelems = 4 /\ ret = <<"PopOut", TRUE, 4>> /\ Cardinality(Freed(heap)) = 1

\* the queue as a constructor leaves it
FreshQueue ==
    /\ head = 1 /\ tail = 1 /\ tail_cache = 1
    /\ Live(heap) = {head_block}
    /\ head_block = tail_block
    /\ heap[head_block] = queue_block
    /\ \A b \in Freed(heap) : heap[b].frees = 1
    /\ \A b \in 1..Len(heap) : \A i \in 0..nmod : heap[b].elems[i].st # "live"
    /\ ~badFree

\* C7: when Clear() returns the queue is in the state of a freshly
\* constructed queue: head = tail = tail_cache = 1, one allocated block that
\* is head_block and tail_block, every earlier block freed once.
C7_ClearIsFresh ==
    (ret[1] = "Clear") => FreshQueue

\* C8: when Clear() or the destructor returns, as many slots have been
\* destroyed as were constructed.
C8_ConstructDestroyBalance ==
    (ret[1] = "Clear" \/ dpc = "dead") => (constructed = destroyed)

\* C9: destroy() frees every allocated block exactly once, walking from
\* head_block to tail_block without loading a next field nothing was stored
\* to.
C9_DestroyFreesEachBlockOnce ==
    /\ dpc # "crashed"
    /\ (dpc \in {"walk", "dead"}) => (~readUnset /\ ~badFree)
    /\ (dpc = "dead") =>
          \A b \in 1..Len(heap) : heap[b].st = "freed" /\ heap[b].frees = 1

\* C10: after a failed block allocation in Push the queue shows no partial
\* effect: tail_block is still a block, no next field holds the null result
\* and nothing was constructed through it.
C10_AllocFailureNoPartialEffect ==
    allocFailed =>
        /\ IsLive(heap, tail_block)
        /\ \A b \in 1..Len(heap) : heap[b].next # NULLP
        /\ ~nullWrite
        /\ ppc # "crashed"

\* C11: in every reachable state, under every interleaving of the steps of
\* Push and Pop, head <= tail.
C11_HeadNotPastTail == head <= tail

\* the consumer has taken the last published element while a Push is running
C11_Witness ==
    head = 3 /\ tail = 3 /\ cpc = "read" /\ ppc = "construct"

\* C12: Pop frees only allocated blocks, each at most once, and never the
\* current tail_block; the block the producer writes (slot or next) and the
\* block the consumer reads (slot or next) are allocated.
C12_NoUseAfterFree ==
    /\ (cpc = "free") => (IsLive(heap, ohead) /\ ohead # tail_block)
    /\ (cpc \in {"next", "read"}) => IsLive(heap, head_block)
    /\ (ppc \in {"link", "advance", "construct", "store"}) => IsLive(heap, tail_block)
    /\ (ppc = "advance") => IsLive(heap, nb)
    /\ (dpc \in {"none", "drain"}) =>
          \A b \in first_block..Len(heap) : heap[b].frees <= 1

\* the consumer frees a block while the producer constructs in a new one
C12_Witness ==
    cpc = "free" /\ ppc = "construct" /\ nb # NULLP /\ tail_block = nb

\* C13: the consumer reads a slot only when it holds the element of index
\* chead, constructed and published (chead below tail and below the acquired
\* tail_cache); the producer constructs only in a slot that holds no element;
\* the two threads are never at the same slot.
C13_SlotOwnership ==
    /\ (cpc = "read") =>
          /\ IsLive(heap, head_block)
          /\ heap[head_block].elems[hind].st = "live"
          /\ heap[head_block].elems[hind].at = chead
          /\ chead < tail /\ chead < tail_cache
    /\ (ppc = "construct") =>
          /\ IsLive(heap, tail_block)
          /\ heap[tail_block].elems[cind].st = "uninit"
    /\ ~(ppc = "construct" /\ cpc = "read" /\ head_block = tail_block /\ hind = cind)

\* both threads are at work in the same block, on different slots
C13_Witness ==
    cpc = "read" /\ ppc = "construct" /\ head_block = tail_block /\ hind # cind

\* C14: when Pop is about to load head_block->next, the producer has stored
\* it and released a tail the consumer has acquired, and it names the
\* allocated block that holds the element being popped; Pop then holds that
\* block.
C14_NextStoredBeforeLoad ==
    /\ (cpc = "next") =>
          /\ ~NextIsUnset(heap, head_block, tail_cache)
          /\ IsLive(heap, heap[head_block].next)
          /\ heap[heap[head_block].next].elems[0].st = "live"
          /\ heap[heap[head_block].next].elems[0].at = chead
    /\ (cpc = "free") => (head_block = heap[ohead].next)

\* Pop crosses from the first block of a 4-element-block queue
C14_Witness ==
    cpc = "next" /\ nelems = 4 /\ chead = 4 /\ head_block = first_block

\* the block k next pointers after block b
RECURSIVE Hops(_, _, _)
Hops(h, b, k) ==
    IF k = 0 THEN b
    ELSE IF ~IsBlock(h, b) THEN WILD
    ELSE Hops(h, h[b].next, k - 1)

\* index i of the queue (the i-th value pushed) is a constructed element in
\* the allocated block hops next pointers after the first block, at i & nmod
ElementAt(i, hops) ==
    /\ IsLive(heap, Hops(heap, first_block, hops))
    /\ heap[Hops(heap, first_block, hops)].elems[BitAnd(i, nmod)] =
           [st |-> "live", val |-> pushed[i], at |-> i]

\* C15 as stated: for head <= i < tail the i-th value pushed is in the block
\* floor((i - 1) / N) next pointers after the first block, at offset i & (N - 1).
C15_SlotAfterIMinus1OverN ==
    \A i \in head..(tail - 1) : ElementAt(i, (i - 1) \div nelems)

\* C15 amended: for head <= i < tail the i-th value pushed is in the block
\* floor(i / N) next pointers after the first block, at offset i & (N - 1).
C15_SlotAfterIOverN ==
    \A i \in head..(tail - 1) : ElementAt(i, i \div nelems)

\* index 4 of a 4-element-block queue is in the queue, in the second block
C15_Witness ==
    nelems = 4 /\ head <= 4 /\ tail = 5 /\ ppc = "idle" /\ tail_block # first_block

\* the running Push takes (has taken) a new block
Allocating ==
    \/ ppc \in {"get_block", "link", "advance"}
    \/ (ppc \in {"construct", "store"} /\ nb # NULLP)

PushRunning == ppc \in {"get_block", "link", "advance", "construct", "store"}

\* a Push that took a new block has linked it and made it tail_block
Linked ==
    (ppc \in {"construct", "store"} /\ nb # NULLP) =>
        (tail_block = nb /\ IsLive(heap, nb) /\ nb # first_block)

\* C16 as stated: Push takes a new block exactly when tail & (N - 1) is zero
\* and tail is not at its initial position; the first Push after init() takes
\* none and constructs in the block init() allocated, for every N.
C16_AllocPastInitialOnly ==
    /\ PushRunning => (Allocating <=> (BitAnd(ctail, nmod) = 0 /\ ctail # 1))
    /\ Linked
    /\ (ppc = "store" /\ ctail = 1) =>
          (tail_block = first_block /\ heap[first_block].elems[cind].st = "live")

\* C16 amended: Push takes a new block exactly when tail & (N - 1) is zero.
\* For N >= 2 the first Push after init() takes none and constructs in the
\* block init() allocated; for N = 1 it takes a new block, like every Push,
\* and the block init() allocated holds no element.
C16_AllocAtIndexZero ==
    /\ PushRunning => (Allocating <=> (BitAnd(ctail, nmod) = 0))
    /\ Linked
    /\ (ppc = "store" /\ ctail = 1 /\ nelems >= 2) =>
          (tail_block = first_block /\ heap[first_block].elems[cind].st = "live")
    /\ (ppc = "store" /\ ctail = 1 /\ nelems = 1) =>
          /\ tail_block # first_block
          /\ heap[first_block].next = tail_block
          /\ heap[first_block].elems[0].st = "uninit"

\* the first Push on a queue of 1-element blocks has taken a second block
C16_Witness ==
    nelems = 1 /\ ctail = 1 /\ ppc = "store" /\ tail_block # first_block

SuccessfulPopReturned ==
    cpc = "idle" /\ dpc = "none" /\ ret[1] \in {"Pop", "PopOut"} /\ ret[2]

\* C17 as stated: when a successful Pop has returned and left head with
\* in-block index zero, the block that held the popped element is freed and
\* head_block is its successor.
C17_FreedByLastElementPop ==
    (SuccessfulPopReturned /\ BitAnd(head, nmod) = 0) =>
        /\ ~IsLive(heap, Hops(heap, first_block, (head - 1) \div nelems))
        /\ head_block = Hops(heap, first_block, (head - 1) \div nelems + 1)

\* C17 amended: whenever no Pop is running, head_block is the allocated block
\* that held the element popped last (the first block when none was popped)
\* and every block before it is freed: a block is freed by the Pop that
\* removes the first element of its successor, not by the Pop that removes
\* its own last element.
C17_FreedByNextBlockPop ==
    (cpc = "idle" /\ dpc \in {"none", "drain"}) =>
        /\ head_block = Hops(heap, first_block, (head - 1) \div nelems)
        /\ IsLive(heap, head_block)
        /\ \A k \in 0..((head - 1) \div nelems - 1) :
               heap[Hops(heap, first_block, k)].st = "freed"

\* the first block of a 4-element-block queue is drained, its successor holds
\* an element, and the block is still allocated after the Pop returned
C17_Witness ==
    /\ nelems = 4 /\ head = 4 /\ tail = 5 /\ ret = <<"PopOut", TRUE, 3>>
    /\ cpc = "idle" /\ head_block = first_block /\ IsLive(heap, first_block)

\* t is reached from b over allocated blocks
RECURSIVE ReachLive(_, _, _, _)
ReachLive(h, b, t, fuel) ==
    /\ IsLive(h, b)
    /\ (b = t \/ (fuel > 0 /\ ReachLive(h, h[b].next, t, fuel - 1)))

\* C18: while the queue is not in destroy()'s block walk, tail_block is
\* reached from head_block over next pointers through allocated blocks, and
\* tail_block->next has never been stored to, except between the store of
\* next and the advance of tail_block in Push.
C18_ChainToTailBlock ==
    (dpc \in {"none", "drain"}) =>
        /\ ReachLive(heap, head_block, tail_block, Len(heap))
        /\ (ppc # "advance") => (heap[tail_block].next = UNSET)
        /\ (ppc = "advance") => (heap[tail_block].next = nb)

\* Push is between the store of next and the advance of tail_block while Pop
\* reads from an earlier block
C18_Witness ==
    ppc = "advance" /\ cpc = "read" /\ head_block # tail_block
    /\ heap[tail_block].next = nb

\* C19: in every reachable state head <= tail_cache <= tail.
C19_CacheBetweenHeadAndTail == head <= tail_cache /\ tail_cache <= tail

\* a Pop skips the load of tail: the cache is ahead of head and behind tail
C19_Witness ==
    cpc = "inc" /\ head < tail_cache /\ tail_cache < tail /\ availAtStart

\* C20: in every quiescent state at most ceil(Size() / N) + 1 blocks are
\* allocated, and a drained queue has exactly one allocated block, which is
\* head_block and tail_block.
C20_BlocksBoundedBySize ==
    Quiescent =>
        /\ Cardinality(Live(heap)) <= (Size + nelems - 1) \div nelems + 1
        /\ (head = tail) =>
              (Live(heap) = {head_block} /\ head_block = tail_block)

\* two elements in a queue of 1-element blocks keep three blocks allocated
C20_Witness ==
    Quiescent /\ nelems = 1 /\ head = 2 /\ tail = 4 /\ Cardinality(Live(heap)) = 3

====
